---------------------------- MODULE Spec2Model ----------------------------
(***************************************************************************)
(* A model of sourcecred's core: addresses and their serialization, the    *)
(* AddressMap container (src/core/address.js) and the Graph built on four  *)
(* AddressMaps (src/core/graph.js).                                         *)
(*                                                                         *)
(* An address object is modelled as a record whose field props is the     *)
(* sequence of its <<name, value>> properties in insertion order, because  *)
(* JSON.stringify writes them in that order; the string JSON.stringify     *)
(* returns is modelled as the sequence of its name and value tokens.       *)
(***************************************************************************)
EXTENDS Naturals, Sequences, FiniteSets, TLC

VARIABLES map, map2, graph, graph2, merged, xs, snapshot, result

vars == <<map, map2, graph, graph2, merged, xs, snapshot, result>>

---------------------------------------------------------------------------
(* Bounds of the model.                                                    *)

\* Largest number of entries the AddressMap under test holds.
MaxEntries == 2
\* Largest number of nodes a graph holds.
MaxNodes == 2
\* Largest number of edges a graph holds.
MaxEdges == 2
\* The most elements of an array given to sortedByAddress.
MaxLen == 3

---------------------------------------------------------------------------
(* Addresses.                                                              *)

\* The four fields of an Address.
AddressFields == {"repositoryName", "pluginName", "type", "id"}

\* The order in which the test helper makeAddress assigns the four fields.
TestOrder == <<"repositoryName", "pluginName", "id", "type">>

\* The order in which GithubGraphFetcher.makeNodeAddress assigns them.
FetcherOrder == <<"pluginName", "repositoryName", "type", "id">>

FieldOrders == {TestOrder, FetcherOrder}


\* The value an address built for `id` holds in the field `name`.
FieldValue(name, id) ==
  CASE name = "repositoryName" -> "sourcecred/suburbia"
    [] name = "pluginName" -> "houseville"
    [] name = "type" -> "HOUSETYPE"
    [] name = "id" -> id

\* An address object whose fields were assigned in the order `order`.
makeAddress(order, id) ==
  [props |-> [i \in 1..Len(order) |-> <<order[i], FieldValue(order[i], id)>>]]

\* The addresses nodes are given: one built in both field orders, and another.
NodeAddresses ==
  {makeAddress(TestOrder, "mansion"), makeAddress(FetcherOrder, "mansion"),
   makeAddress(TestOrder, "mattressStore")}

\* The addresses edges are given: one address, built in both field orders.
EdgeAddresses ==
  {makeAddress(TestOrder, "deed"), makeAddress(FetcherOrder, "deed")}

Addresses == NodeAddresses \cup EdgeAddresses

\* null and undefined, as the arguments and fields that may be absent.
Null == [nullish |-> "null"]
Undefined == [nullish |-> "undefined"]
Absent == {Null, Undefined}

\* x == null in JavaScript: true of null and of undefined.
IsNullish(x) == "nullish" \in DOMAIN x

\* String(x) for null and undefined.
String(x) == x.nullish

\* The value of the property `name` of the object `obj`.
Field(obj, name) ==
  LET i == CHOOSE i \in 1..Len(obj.props) : obj.props[i][1] = name
  IN obj.props[i][2]

\* JSON.stringify of an object with string properties: the names and values in
\* the object's own property order.
Stringify(obj) ==
  [i \in 1..(2 * Len(obj.props)) |->
     IF i % 2 = 1 THEN obj.props[(i + 1) \div 2][1]
                  ELSE obj.props[i \div 2][2]]

\* JSON.parse of such a string: the object with the properties in the order of
\* the text.
Parse(key) ==
  [props |-> [i \in 1..(Len(key) \div 2) |-> <<key[2 * i - 1], key[2 * i]>>]]

\* lodash.isequal on two plain objects with string properties: the same
\* property names with equal values, whatever the property order.
deepEqualObject(a, b) ==
  {a.props[i] : i \in 1..Len(a.props)} = {b.props[i] : i \in 1..Len(b.props)}

Keys == {Stringify(a) : a \in Addresses}

---------------------------------------------------------------------------
(* Outcomes of a call.                                                     *)

\* The call returned the value v.
Returned(v) == [tag |-> "return", value |-> v]
\* The call returned undefined.
ReturnedUndefined == [tag |-> "undefined"]
\* The call returned `this`.
ReturnedThis == [tag |-> "this"]
\* The call returned a newly constructed object.
ReturnedNew == [tag |-> "new"]
\* The call returned the array l.
ReturnedArray(l) == [tag |-> "array", value |-> l]
\* The call returned the boolean b.
ReturnedBoolean(b) == [tag |-> IF b THEN "true" ELSE "false"]
\* The call threw an Error whose message is prefix + text + suffix.
Threw(prefix, text, suffix) ==
  [tag |-> "throw", message |-> <<prefix, text, suffix>>]
\* The call threw a TypeError on reading a property of null or undefined.
ThrewTypeError == [tag |-> "TypeError"]

---------------------------------------------------------------------------
(* AddressMap: _data is an object, i.e. its entries in insertion order.    *)

\* new AddressMap()
EmptyMap == <<>>

MapKeys(data) == {data[i].key : i \in 1..Len(data)}

HasKey(data, key) == \E i \in 1..Len(data) : data[i].key = key

\* this._data[key], for a key that is present.
At(data, key) ==
  LET i == CHOOSE i \in 1..Len(data) : data[i].key = key IN data[i].value

\* this._data[key] = u: an existing property keeps its place, a new one is
\* appended.
Put(data, key, u) ==
  IF HasKey(data, key)
    THEN [i \in 1..Len(data) |->
            IF data[i].key = key THEN [key |-> key, value |-> u] ELSE data[i]]
    ELSE Append(data, [key |-> key, value |-> u])

\* MapAdd keeping the value already stored at the address of u.
MapAddKeepsStored(data, u) ==
  IF IsNullish(u)
    THEN [data |-> data, result |-> ThrewTypeError]
  ELSE IF IsNullish(u.address)
    THEN [data |-> data, result |-> Threw("address is ", String(u.address), "")]
  ELSE IF HasKey(data, Stringify(u.address))
    THEN [data |-> data, result |-> ReturnedThis]
  ELSE [data |-> Put(data, Stringify(u.address), u), result |-> ReturnedThis]

\* AddressMap.add(u): the new _data and the outcome.
MapAdd(data, u) ==
  IF IsNullish(u)
    THEN [data |-> data, result |-> ThrewTypeError]
  ELSE IF IsNullish(u.address)
    THEN [data |-> data, result |-> Threw("address is ", String(u.address), "")]
  ELSE [data |-> Put(data, Stringify(u.address), u), result |-> ReturnedThis]

\* AddressMap.get(address): the outcome.
MapGet(data, address) ==
  IF IsNullish(address)
    THEN Threw("address is ", String(address), "")
  ELSE IF HasKey(data, Stringify(address))
    THEN Returned(At(data, Stringify(address)))
  ELSE ReturnedUndefined

\* AddressMap.getAll(): the values in the order of Object.keys.
MapGetAll(data) == [i \in 1..Len(data) |-> data[i].value]

\* lodash.isequal on two stored values: the same properties, the addresses
\* among them compared as objects.
deepEqualValue(a, b) ==
  /\ DOMAIN a = DOMAIN b
  /\ \A f \in DOMAIN a :
       IF f \in {"address", "src", "dst"}
         THEN deepEqualObject(a[f], b[f])
         ELSE a[f] = b[f]

\* MapEquals comparing the entries in their insertion order.
MapEqualsInOrder(d1, d2) == d1 = d2

\* AddressMap.equals(that): lodash.isequal on the two _data objects, which is
\* the same keys with deep-equal values, whatever the order of the keys.
MapEquals(d1, d2) ==
  /\ MapKeys(d1) = MapKeys(d2)
  /\ \A k \in MapKeys(d1) : deepEqualValue(At(d1, k), At(d2, k))

\* SansAddress without the delete.
SansAddressKept(value) == value

\* {...value} followed by delete node.address.
SansAddress(value) ==
  [f \in (DOMAIN value) \ {"address"} |-> value[f]]

\* {...value, address: a}
WithAddress(value, a) ==
  [f \in (DOMAIN value) \cup {"address"} |->
     IF f = "address" THEN a ELSE value[f]]

\* AddressMap.toJSON()
MapToJSON(data) ==
  [i \in 1..Len(data) |->
     [key |-> data[i].key, value |-> SansAddress(data[i].value)]]

\* MapFromJSON leaving the values as they are in the JSON object.
MapFromJSONNoAddress(json) ==
  [i \in 1..Len(json) |-> [key |-> json[i].key, value |-> json[i].value]]

\* MapFromJSON giving every value the address of the first key.
MapFromJSONFirstKey(json) ==
  [i \in 1..Len(json) |->
     [key |-> json[i].key,
      value |-> WithAddress(json[i].value, Parse(json[1].key))]]

\* AddressMap.fromJSON(json): the _data of the new map.
MapFromJSON(json) ==
  [i \in 1..Len(json) |->
     [key |-> json[i].key,
      value |-> WithAddress(json[i].value, Parse(json[i].key))]]

---------------------------------------------------------------------------
(* sortedByAddress.                                                        *)

\* The strings that occur in the keys, in the order of their UTF-16 code
\* units, which is the order of < and > on strings.
CodeUnitOrder ==
  <<"HOUSETYPE", "annex", "deed", "houseville", "id", "lease", "mansion",
    "mattressStore", "pluginName", "repositoryName", "sourcecred/suburbia",
    "type">>

Rank(string) ==
  CHOOSE i \in 1..Len(CodeUnitOrder) : CodeUnitOrder[i] = string

\* a1 < a2 on two serialized addresses of the same number of fields: the
\* texts differ first within a name or a value, where a1 has the lesser
\* string.
StringLess(a1, a2) ==
  \E i \in 1..Len(a1) :
    /\ \A h \in 1..(i - 1) : a1[h] = a2[h]
    /\ Rank(a1[i]) < Rank(a2[i])

\* cmp(x1, x2)
cmp(x1, x2) ==
  LET a1 == Stringify(x1.address)
      a2 == Stringify(x2.address)
  IN IF StringLess(a2, a1) THEN 1
     ELSE IF StringLess(a1, a2) THEN 0 - 1
     ELSE 0

\* The arrays that hold the elements of the array a in some arrangement.
Arrangements(a) ==
  LET places == {f \in [1..Len(a) -> 1..Len(a)] :
                   \A h, i \in 1..Len(a) : f[h] = f[i] => h = i}
  IN {[i \in 1..Len(a) |-> a[f[i]]] : f \in places}

\* Sort leaving the array as it is.
SortNothing(a) == {a}

\* a.sort(cmp): the arrays it may leave, the elements arranged so that cmp
\* is never positive from an earlier to a later one. Which of several
\* elements that compare equal comes first is the engine's choice.
Sort(a) ==
  {b \in Arrangements(a) :
     \A h, i \in 1..Len(b) : h < i => cmp(b[h], b[i]) <= 0}

\* xs.slice(): the array that sort works on.
Sliced == "copy"

\* sortedByAddress(xs), the sort leaving `sorted`: the two arrays after the
\* call and the array returned.
sortedByAddressCall(array, sorted) ==
  LET arrays == [[xs |-> array, copy |-> array] EXCEPT ![Sliced] = sorted]
  IN [xs |-> arrays.xs, result |-> ReturnedArray(arrays[Sliced])]

---------------------------------------------------------------------------
(* Graph: four AddressMaps.                                                *)

Payloads == {"p", "q"}

EdgePayloads == {"p"}

\* Node values: {address, payload}.
Nodes == [address : NodeAddresses, payload : Payloads]

\* Edge values: {address, src, dst, payload}.
Edges == [address : EdgeAddresses, src : NodeAddresses, dst : NodeAddresses,
          payload : EdgePayloads]

\* new Graph()
EmptyGraph ==
  [nodes |-> EmptyMap, edges |-> EmptyMap,
   outEdges |-> EmptyMap, inEdges |-> EmptyMap]

\* deepEqualNode comparing the addresses alone.
deepEqualNodeAddress(a, b) == deepEqualObject(a.address, b.address)

\* lodash.isequal on two nodes.
deepEqualNode(a, b) ==
  /\ deepEqualObject(a.address, b.address)
  /\ a.payload = b.payload

\* lodash.isequal on two edges.
deepEqualEdge(a, b) ==
  /\ deepEqualObject(a.address, b.address)
  /\ deepEqualObject(a.src, b.src)
  /\ deepEqualObject(a.dst, b.dst)
  /\ a.payload = b.payload

\* Graph.getNode(address)
getNode(g, address) == MapGet(g.nodes, address)

\* Graph.getEdge(address)
getEdge(g, address) == MapGet(g.edges, address)

\* PushEdge putting the new address at the front of the list.
PushEdgeFront(data, a, e) ==
  LET entry == At(data, Stringify(a))
  IN Put(data, Stringify(a),
         [address |-> entry.address, edges |-> <<e>> \o entry.edges])

\* this._outEdges.get(a).edges.push(e): push on the list stored at a.
PushEdge(data, a, e) ==
  LET entry == At(data, Stringify(a))
  IN Put(data, Stringify(a),
         [address |-> entry.address, edges |-> Append(entry.edges, e)])

\* InsertNode without the in-edge list of the new node.
InsertNodeNoInEdges(g, node) ==
  [nodes |-> MapAdd(g.nodes, node).data,
   edges |-> g.edges,
   outEdges |->
     MapAdd(g.outEdges, [address |-> node.address, edges |-> <<>>]).data,
   inEdges |-> g.inEdges]

\* addNode's insertion: the node, and an empty list in each index.
InsertNode(g, node) ==
  [nodes |-> MapAdd(g.nodes, node).data,
   edges |-> g.edges,
   outEdges |->
     MapAdd(g.outEdges, [address |-> node.address, edges |-> <<>>]).data,
   inEdges |->
     MapAdd(g.inEdges, [address |-> node.address, edges |-> <<>>]).data]

\* NodeConflict replacing the stored node instead of refusing the new one.
NodeConflictOverwrites(g, node) ==
  [graph |-> [g EXCEPT !.nodes = MapAdd(g.nodes, node).data],
   result |-> ReturnedThis]

\* addNode's answer to a node that differs from the one stored at its address.
NodeConflict(g, node) ==
  [graph |-> g,
   result |-> Threw("node at address ", Stringify(node.address),
                    " exists with distinct contents")]

\* Graph.addNode(node): the graph after the call and the outcome.
addNodeCall(g, node) ==
  IF IsNullish(node)
    THEN [graph |-> g, result |-> Threw("node is ", String(node), "")]
  ELSE
    LET existingNode == getNode(g, node.address) IN
    IF existingNode.tag = "throw"
      THEN [graph |-> g, result |-> existingNode]
    ELSE IF existingNode.tag # "undefined"
      THEN IF deepEqualNode(existingNode.value, node)
             THEN [graph |-> g, result |-> ReturnedThis]
             ELSE NodeConflict(g, node)
    ELSE [graph |-> InsertNode(g, node), result |-> ReturnedThis]

\* addEdge's answer to an edge that differs from the one stored at its address.
EdgeConflict(g, edge) ==
  [graph |-> g,
   result |-> Threw("edge at address ", Stringify(edge.address),
                    " exists with distinct contents")]

\* SrcMissing with the edge stored before its endpoints are checked.
SrcMissingAfterStore(g, edge) ==
  [graph |-> [g EXCEPT !.edges = MapAdd(g.edges, edge).data],
   result |-> Threw("source ", Stringify(edge.src), " does not exist")]

\* addEdge's answer to an edge whose src has no node.
SrcMissing(g, edge) ==
  [graph |-> g,
   result |-> Threw("source ", Stringify(edge.src), " does not exist")]

\* addEdge's answer to an edge whose dst has no node.
DstMissing(g, edge) ==
  [graph |-> g,
   result |-> Threw("source ", Stringify(edge.dst), " does not exist")]

\* The dst check left out.
dstUnchecked(g, edge) == FALSE

\* this.getNode(edge.dst) === undefined
dstUndefined(g, edge) == getNode(g, edge.dst).tag = "undefined"

\* InsertEdge pushing the address on the in-edge list of src instead of dst.
InsertEdgeInSrc(g, edge) ==
  [graph |->
     [g EXCEPT !.edges = MapAdd(g.edges, edge).data,
               !.outEdges = PushEdge(g.outEdges, edge.src, edge.address),
               !.inEdges = PushEdge(g.inEdges, edge.src, edge.address)],
   result |-> ReturnedThis]

\* addEdge's insertion: the edge, its address pushed on the out-edge list of
\* its src and on the in-edge list of its dst. Reading .edges of a missing
\* index entry is a TypeError that leaves the earlier writes in place.
InsertEdge(g, edge) ==
  LET withEdge == [g EXCEPT !.edges = MapAdd(g.edges, edge).data] IN
  IF MapGet(g.outEdges, edge.src).tag = "undefined"
    THEN [graph |-> withEdge, result |-> ThrewTypeError]
  ELSE
    LET withOut ==
          [withEdge EXCEPT
             !.outEdges = PushEdge(g.outEdges, edge.src, edge.address)] IN
    IF MapGet(g.inEdges, edge.dst).tag = "undefined"
      THEN [graph |-> withOut, result |-> ThrewTypeError]
    ELSE
      [graph |->
         [withOut EXCEPT
            !.inEdges = PushEdge(g.inEdges, edge.dst, edge.address)],
       result |-> ReturnedThis]

\* addEdge checking the endpoints before the edge's own address.
addEdgeCallEndpointsFirst(g, edge) ==
  IF IsNullish(edge)
    THEN [graph |-> g, result |-> Threw("edge is ", String(edge), "")]
  ELSE IF getNode(g, edge.src).tag = "undefined"
    THEN SrcMissing(g, edge)
  ELSE IF dstUndefined(g, edge)
    THEN DstMissing(g, edge)
  ELSE
    LET existingEdge == getEdge(g, edge.address) IN
    IF existingEdge.tag = "undefined"
      THEN InsertEdge(g, edge)
    ELSE IF deepEqualEdge(existingEdge.value, edge)
      THEN [graph |-> g, result |-> ReturnedThis]
    ELSE EdgeConflict(g, edge)

\* Graph.addEdge(edge): the graph after the call and the outcome.
addEdgeCall(g, edge) ==
  IF IsNullish(edge)
    THEN [graph |-> g, result |-> Threw("edge is ", String(edge), "")]
  ELSE
    LET existingEdge == getEdge(g, edge.address) IN
    IF existingEdge.tag = "throw"
      THEN [graph |-> g, result |-> existingEdge]
    ELSE IF existingEdge.tag # "undefined"
      THEN IF deepEqualEdge(existingEdge.value, edge)
             THEN [graph |-> g, result |-> ReturnedThis]
             ELSE EdgeConflict(g, edge)
    ELSE IF getNode(g, edge.src).tag = "throw"
      THEN [graph |-> g, result |-> getNode(g, edge.src)]
    ELSE IF getNode(g, edge.src).tag = "undefined"
      THEN SrcMissing(g, edge)
    ELSE IF getNode(g, edge.dst).tag = "throw"
      THEN [graph |-> g, result |-> getNode(g, edge.dst)]
    ELSE IF dstUndefined(g, edge)
      THEN DstMissing(g, edge)
    ELSE InsertEdge(g, edge)

\* result.edges.map(e => this.getEdge(e)): the edge stored at each address of
\* the list, undefined where there is none.
EdgesOf(g, list) ==
  [i \in 1..Len(list) |->
     IF getEdge(g, list[i]).tag = "return"
       THEN getEdge(g, list[i]).value
       ELSE Undefined]

\* The lookup of a node's list in an index, then the edges of the list.
AdjacentEdges(g, index, nodeAddress) ==
  IF IsNullish(nodeAddress)
    THEN Threw("address is ", String(nodeAddress), "")
  ELSE IF MapGet(index, nodeAddress).tag = "undefined"
    THEN Threw("no node for address ", Stringify(nodeAddress), "")
  ELSE ReturnedArray(EdgesOf(g, MapGet(index, nodeAddress).value.edges))

\* Graph.getOutEdges(nodeAddress): the outcome.
getOutEdgesCall(g, nodeAddress) == AdjacentEdges(g, g.outEdges, nodeAddress)

\* Graph.getInEdges(nodeAddress): the outcome.
getInEdgesCall(g, nodeAddress) == AdjacentEdges(g, g.inEdges, nodeAddress)

\* Graph.equals(that)
GraphEquals(g1, g2) ==
  MapEquals(g1.nodes, g2.nodes) /\ MapEquals(g1.edges, g2.edges)

\* Graph.toJSON()
graphToJSON(g) == [nodes |-> MapToJSON(g.nodes), edges |-> MapToJSON(g.edges)]

\* The call threw, an Error or a TypeError.
Failed(r) == r.result.tag \in {"throw", "TypeError"}

\* nodes.forEach((node) => { result.addNode(node); }) from the outcome acc on:
\* the first call that throws ends the loop.
RECURSIVE AddNodes(_, _)
AddNodes(acc, nodes) ==
  IF Failed(acc) \/ nodes = <<>>
    THEN acc
    ELSE AddNodes(addNodeCall(acc.graph, Head(nodes)), Tail(nodes))

\* edges.forEach((edge) => { result.addEdge(edge); }) from the outcome acc on.
RECURSIVE AddEdges(_, _)
AddEdges(acc, edges) ==
  IF Failed(acc) \/ edges = <<>>
    THEN acc
    ELSE AddEdges(addEdgeCall(acc.graph, Head(edges)), Tail(edges))

\* The outcome of a static method that built the graph r.graph: the new graph,
\* or what was thrown on the way.
Built(r) ==
  IF Failed(r) THEN r ELSE [graph |-> r.graph, result |-> ReturnedNew]

\* graphFromJSONCall with the edges added before the nodes.
graphFromJSONEdgesFirst(json) ==
  Built(AddNodes(AddEdges([graph |-> EmptyGraph, result |-> ReturnedNew],
                          MapGetAll(MapFromJSON(json.edges))),
                 MapGetAll(MapFromJSON(json.nodes))))

\* Graph.fromJSON(json): the graph built and the outcome.
graphFromJSONCall(json) ==
  Built(AddEdges(AddNodes([graph |-> EmptyGraph, result |-> ReturnedNew],
                          MapGetAll(MapFromJSON(json.nodes))),
                 MapGetAll(MapFromJSON(json.edges))))

---------------------------------------------------------------------------
(* Graph.merge and Graph.mergeConservative. A heap names the three Graph   *)
(* objects of a call: the arguments g1 and g2, and the graph that          *)
(* `new Graph()` makes.                                                    *)

\* An address that no graph under test stores, for a node and for an edge.
AnnexAddress == makeAddress(TestOrder, "annex")
LeaseAddress == makeAddress(TestOrder, "lease")

\* The resolvers given to merge: keep the first argument, keep the second,
\* synthesize a payload, point an edge at the mattress store, return a value
\* at another address; and the resolver of mergeConservative.
Resolve(resolver, kinds, a, b) ==
  CASE resolver = "first" -> Returned(a)
    [] resolver = "second" -> Returned(b)
    [] resolver = "synthesize" -> Returned([a EXCEPT !.payload = "pq"])
    [] resolver = "redirect" ->
         Returned([a EXCEPT !.dst = makeAddress(TestOrder, "mattressStore")])
    [] resolver = "relocate" ->
         Returned([a EXCEPT !.address =
                     IF kinds = "nodes" THEN AnnexAddress ELSE LeaseAddress])
    [] resolver = "conservative" ->
         IF deepEqualValue(a, b)
           THEN Returned(a)
           ELSE Threw("distinct " \o kinds \o " with address ",
                      Stringify(a.address), "")

\* The graph the calls of merge write to is g1 itself.
ResultIsG1 == "g1"

\* const result = new Graph(): the object the calls of merge write to.
Result == "result"

\* The heap at the start of merge(g1, g2, ...).
NewHeap(g1, g2) == [g1 |-> g1, g2 |-> g2, result |-> EmptyGraph]

\* The state of a merge after result.addNode or result.addEdge returned or
\* threw r: the heap with the written graph, the outcome, the resolver calls.
After(acc, r, calls) ==
  [heap |-> [acc.heap EXCEPT ![Result] = r.graph],
   result |-> r.result, calls |-> calls]

\* g1.getAllNodes().forEach(...): a node that g2 has too is resolved and the
\* resolved node added, any other node is added as it is.
RECURSIVE MergeNodesOfG1(_, _, _)
MergeNodesOfG1(acc, nodes, nodeResolver) ==
  IF Failed(acc) \/ nodes = <<>>
    THEN acc
    ELSE
      LET node == Head(nodes)
          other == getNode(acc.heap.g2, node.address)
      IN IF other.tag # "undefined"
           THEN
             LET resolved == Resolve(nodeResolver, "nodes", node, other.value)
                 calls == Append(acc.calls, <<"nodes", node, other.value>>)
             IN IF resolved.tag = "throw"
                  THEN [acc EXCEPT !.result = resolved, !.calls = calls]
                  ELSE MergeNodesOfG1(
                         After(acc, addNodeCall(acc.heap[Result],
                                                resolved.value), calls),
                         Tail(nodes), nodeResolver)
           ELSE MergeNodesOfG1(
                  After(acc, addNodeCall(acc.heap[Result], node), acc.calls),
                  Tail(nodes), nodeResolver)

\* LacksNode looking the address up in g1.
LacksNodeInG1(acc, node) ==
  getNode(acc.heap.g1, node.address).tag = "undefined"

\* result.getNode(node.address) === undefined
LacksNode(acc, node) ==
  getNode(acc.heap[Result], node.address).tag = "undefined"

\* result.getEdge(edge.address) === undefined
LacksEdge(acc, edge) ==
  getEdge(acc.heap[Result], edge.address).tag = "undefined"

\* g2.getAllNodes().forEach(...): a node whose address the result lacks is
\* added.
RECURSIVE MergeNodesOfG2(_, _)
MergeNodesOfG2(acc, nodes) ==
  IF Failed(acc) \/ nodes = <<>>
    THEN acc
    ELSE
      IF LacksNode(acc, Head(nodes))
        THEN MergeNodesOfG2(
               After(acc, addNodeCall(acc.heap[Result], Head(nodes)),
                     acc.calls),
               Tail(nodes))
        ELSE MergeNodesOfG2(acc, Tail(nodes))

\* g1.getAllEdges().forEach(...)
RECURSIVE MergeEdgesOfG1(_, _, _)
MergeEdgesOfG1(acc, edges, edgeResolver) ==
  IF Failed(acc) \/ edges = <<>>
    THEN acc
    ELSE
      LET edge == Head(edges)
          other == getEdge(acc.heap.g2, edge.address)
      IN IF other.tag # "undefined"
           THEN
             LET resolved == Resolve(edgeResolver, "edges", edge, other.value)
                 calls == Append(acc.calls, <<"edges", edge, other.value>>)
             IN IF resolved.tag = "throw"
                  THEN [acc EXCEPT !.result = resolved, !.calls = calls]
                  ELSE MergeEdgesOfG1(
                         After(acc, addEdgeCall(acc.heap[Result],
                                                resolved.value), calls),
                         Tail(edges), edgeResolver)
           ELSE MergeEdgesOfG1(
                  After(acc, addEdgeCall(acc.heap[Result], edge), acc.calls),
                  Tail(edges), edgeResolver)

\* g2.getAllEdges().forEach(...)
RECURSIVE MergeEdgesOfG2(_, _)
MergeEdgesOfG2(acc, edges) ==
  IF Failed(acc) \/ edges = <<>>
    THEN acc
    ELSE
      IF LacksEdge(acc, Head(edges))
        THEN MergeEdgesOfG2(
               After(acc, addEdgeCall(acc.heap[Result], Head(edges)),
                     acc.calls),
               Tail(edges))
        ELSE MergeEdgesOfG2(acc, Tail(edges))

\* mergeCall without the two loops over g2.
mergeCallG1Only(g1, g2, nodeResolver, edgeResolver) ==
  LET start == [heap |-> NewHeap(g1, g2), result |-> ReturnedNew,
                calls |-> <<>>]
      n1 == MergeNodesOfG1(start, MapGetAll(start.heap.g1.nodes), nodeResolver)
      e1 == IF Failed(n1) THEN n1
            ELSE MergeEdgesOfG1(n1, MapGetAll(n1.heap.g1.edges), edgeResolver)
  IN IF Failed(e1) THEN e1 ELSE [e1 EXCEPT !.result = ReturnedNew]

\* The first half of Graph.merge, from `new Graph()` to the end of the loop
\* over the nodes of g2: the heap, the outcome so far and the resolver calls.
\* Each getAll is evaluated when its loop starts.
mergeNodesCall(g1, g2, nodeResolver) ==
  LET start == [heap |-> NewHeap(g1, g2), result |-> ReturnedNew,
                calls |-> <<>>]
      n1 == MergeNodesOfG1(start, MapGetAll(start.heap.g1.nodes), nodeResolver)
  IN IF Failed(n1) THEN n1
     ELSE MergeNodesOfG2(n1, MapGetAll(n1.heap.g2.nodes))

\* mergeCall with the two loops over the edges before those over the nodes.
mergeCallEdgesFirst(g1, g2, nodeResolver, edgeResolver) ==
  LET start == [heap |-> NewHeap(g1, g2), result |-> ReturnedNew,
                calls |-> <<>>]
      e1 == MergeEdgesOfG1(start, MapGetAll(start.heap.g1.edges),
                           edgeResolver)
      e2 == IF Failed(e1) THEN e1
            ELSE MergeEdgesOfG2(e1, MapGetAll(e1.heap.g2.edges))
      n1 == IF Failed(e2) THEN e2
            ELSE MergeNodesOfG1(e2, MapGetAll(e2.heap.g1.nodes), nodeResolver)
      n2 == IF Failed(n1) THEN n1
            ELSE MergeNodesOfG2(n1, MapGetAll(n1.heap.g2.nodes))
  IN IF Failed(n2) THEN n2 ELSE [n2 EXCEPT !.result = ReturnedNew]

\* Graph.merge(g1, g2, nodeResolver, edgeResolver): the heap after the call,
\* the outcome (the new graph is heap[Result]) and the resolver calls made.
mergeCall(g1, g2, nodeResolver, edgeResolver) ==
  LET n2 == mergeNodesCall(g1, g2, nodeResolver)
      e1 == IF Failed(n2) THEN n2
            ELSE MergeEdgesOfG1(n2, MapGetAll(n2.heap.g1.edges), edgeResolver)
      e2 == IF Failed(e1) THEN e1
            ELSE MergeEdgesOfG2(e1, MapGetAll(e1.heap.g2.edges))
  IN IF Failed(e2) THEN e2 ELSE [e2 EXCEPT !.result = ReturnedNew]

\* mergeConservative with resolvers that keep the first argument.
mergeConservativeFirstWins(g1, g2) == mergeCall(g1, g2, "first", "first")

\* Graph.mergeConservative(g1, g2)
mergeConservativeCall(g1, g2) ==
  mergeCall(g1, g2, "conservative", "conservative")

---------------------------------------------------------------------------
(* The graph under test: a Graph built by addNode and addEdge calls.       *)

NodeInputs == Nodes \cup Absent

EdgeInputs == Edges \cup Absent

Init ==
  /\ map = EmptyMap
  /\ map2 = EmptyMap
  /\ graph = EmptyGraph
  /\ graph2 = EmptyGraph
  /\ merged = Null
  /\ xs = <<>>
  /\ snapshot = Undefined
  /\ result = ReturnedNew

\* graph.addNode(node)
addNode(node) ==
  LET r == addNodeCall(graph, node) IN
  /\ Len(r.graph.nodes) <= MaxNodes
  /\ graph' = r.graph
  /\ result' = r.result
  /\ UNCHANGED <<map, map2, graph2, merged, xs, snapshot>>

\* graph.addEdge(edge)
addEdge(edge) ==
  LET r == addEdgeCall(graph, edge) IN
  /\ Len(r.graph.edges) <= MaxEdges
  /\ graph' = r.graph
  /\ result' = r.result
  /\ UNCHANGED <<map, map2, graph2, merged, xs, snapshot>>

Next ==
  \/ \E node \in NodeInputs : addNode(node)
  \/ \E edge \in EdgeInputs : addEdge(edge)

Spec == Init /\ [][Next]_vars

---------------------------------------------------------------------------
(* The same graph, with the adjacency queries and the JSON round trip      *)
(* among the calls.                                                        *)

AddressInputs == NodeAddresses \cup Absent

\* The nodes of these calls: one payload, which the queries never read and
\* the JSON methods copy as it is.
QueryNodes == [address : NodeAddresses, payload : {"p"}]

\* graph.getOutEdges(nodeAddress)
getOutEdges(nodeAddress) ==
  /\ result' = getOutEdgesCall(graph, nodeAddress)
  /\ UNCHANGED <<map, map2, graph, graph2, merged, xs, snapshot>>

\* graph.getInEdges(nodeAddress)
getInEdges(nodeAddress) ==
  /\ result' = getInEdgesCall(graph, nodeAddress)
  /\ UNCHANGED <<map, map2, graph, graph2, merged, xs, snapshot>>

\* The JSON object without the property `key`.
SansKey(json, key) ==
  SelectSeq(json, LAMBDA entry : entry.key # key)

\* graph = Graph.fromJSON(json): a throw leaves the variable as it was.
fromJSON(json) ==
  LET r == graphFromJSONCall(json) IN
  /\ graph' = IF Failed(r) THEN graph ELSE r.graph
  /\ result' = r.result
  /\ UNCHANGED <<map, map2, graph2, merged, xs, snapshot>>

\* graph = Graph.fromJSON(graph.toJSON())
roundTrip == fromJSON(graphToJSON(graph))

\* Graph.fromJSON of the JSON of the graph less the node at `key`.
fromJSONSansNode(key) ==
  /\ HasKey(graph.nodes, key)
  /\ fromJSON([nodes |-> SansKey(graphToJSON(graph).nodes, key),
               edges |-> graphToJSON(graph).edges])

QueryNext ==
  \/ \E node \in QueryNodes : addNode(node)
  \/ \E edge \in Edges : addEdge(edge)
  \/ \E nodeAddress \in AddressInputs : getOutEdges(nodeAddress)
  \/ \E nodeAddress \in AddressInputs : getInEdges(nodeAddress)
  \/ roundTrip
  \/ \E key \in Keys : fromJSONSansNode(key)

QuerySpec == Init /\ [][QueryNext]_vars

---------------------------------------------------------------------------
(* The map under test: an AddressMap built by the constructor, add and     *)
(* fromJSON, and read by get.                                              *)

\* Values given to add: addressable values, values whose address is absent,
\* and absent values.
MapValues == [address : Addresses \cup Absent, payload : Payloads] \cup Absent

\* Addresses given to get.
GetInputs == Addresses \cup Absent

\* The entries a JSON object may hold: a serialized address and a value
\* without its address.
JSONEntries == [key : Keys, value : [payload : Payloads]]

\* JSON objects given to fromJSON: at most MaxEntries entries, with distinct
\* keys, in any order.
JSONInputs ==
  UNION {{json \in [1..n -> JSONEntries] :
            \A i, j \in 1..n : json[i].key = json[j].key => i = j} :
         n \in 0..MaxEntries}

\* map.add(u)
mapAdd(u) ==
  LET r == MapAdd(map, u) IN
  /\ Len(r.data) <= MaxEntries
  /\ map' = r.data
  /\ result' = r.result
  /\ UNCHANGED <<map2, graph, graph2, merged, xs, snapshot>>

\* map.get(address)
mapGet(address) ==
  /\ result' = MapGet(map, address)
  /\ UNCHANGED <<map, map2, graph, graph2, merged, xs, snapshot>>

\* map = AddressMap.fromJSON(json)
mapFromJSON(json) ==
  /\ map' = MapFromJSON(json)
  /\ result' = ReturnedNew
  /\ UNCHANGED <<map2, graph, graph2, merged, xs, snapshot>>

MapNext ==
  \/ \E u \in MapValues : mapAdd(u)
  \/ \E address \in GetInputs : mapGet(address)
  \/ \E json \in JSONInputs : mapFromJSON(json)

MapSpec == Init /\ [][MapNext]_vars

---------------------------------------------------------------------------
(* Two AddressMaps, filled by add and compared by equals.                  *)

\* The houses of the equality tests: an address and a payload.
PairValues == [address : NodeAddresses, payload : Payloads]

\* this.add(u) on the first map.
thisAdd(u) ==
  LET r == MapAdd(map, u) IN
  /\ Len(r.data) <= MaxEntries
  /\ map' = r.data
  /\ result' = r.result
  /\ UNCHANGED <<map2, graph, graph2, merged, xs, snapshot>>

\* that.add(u) on the second map.
thatAdd(u) ==
  LET r == MapAdd(map2, u) IN
  /\ Len(r.data) <= MaxEntries
  /\ map2' = r.data
  /\ result' = r.result
  /\ UNCHANGED <<map, graph, graph2, merged, xs, snapshot>>

\* this.equals(that)
equals ==
  /\ result' = ReturnedBoolean(MapEquals(map, map2))
  /\ UNCHANGED <<map, map2, graph, graph2, merged, xs, snapshot>>

PairNext ==
  \/ \E u \in PairValues : thisAdd(u)
  \/ \E u \in PairValues : thatAdd(u)
  \/ equals

PairSpec == Init /\ [][PairNext]_vars

---------------------------------------------------------------------------
(* Two graphs built by addNode and addEdge, then merged; the graph that    *)
(* the merge returns takes one more call.                                  *)

\* The nodes and edges of the two graphs: two addresses and two payloads for
\* a node, one address and every pair of endpoints for an edge.
MergeNodeAddresses ==
  {makeAddress(TestOrder, "mansion"), makeAddress(TestOrder, "mattressStore")}
MergeNodes == [address : MergeNodeAddresses, payload : Payloads]
MergeEdges ==
  [address : {makeAddress(TestOrder, "deed")}, src : MergeNodeAddresses,
   dst : MergeNodeAddresses, payload : EdgePayloads]

\* The resolver pairs given to merge.
Resolvers ==
  {<<"first", "first">>, <<"second", "second">>,
   <<"synthesize", "synthesize">>, <<"first", "redirect">>,
   <<"relocate", "first">>, <<"first", "relocate">>}

\* g1.addNode(node), before the merge.
g1AddNode(node) == IsNullish(merged) /\ addNode(node)

\* g1.addEdge(edge), before the merge.
g1AddEdge(edge) == IsNullish(merged) /\ addEdge(edge)

\* g2.addNode(node), before the merge.
g2AddNode(node) ==
  LET r == addNodeCall(graph2, node) IN
  /\ IsNullish(merged)
  /\ Len(r.graph.nodes) <= MaxNodes
  /\ graph2' = r.graph
  /\ result' = r.result
  /\ UNCHANGED <<map, map2, graph, merged, xs, snapshot>>

\* g2.addEdge(edge), before the merge.
g2AddEdge(edge) ==
  LET r == addEdgeCall(graph2, edge) IN
  /\ IsNullish(merged)
  /\ Len(r.graph.edges) <= MaxEdges
  /\ graph2' = r.graph
  /\ result' = r.result
  /\ UNCHANGED <<map, map2, graph, merged, xs, snapshot>>

\* The variables after a merge in the state r: g1 and g2 as the heap has them,
\* merged the returned graph, if one was returned.
Merged(r) ==
  /\ graph' = r.heap.g1
  /\ graph2' = r.heap.g2
  /\ merged' = IF Failed(r) THEN Null ELSE r.heap[Result]
  /\ result' = r.result
  /\ UNCHANGED <<map, map2, xs, snapshot>>

\* merged = Graph.merge(g1, g2, nodeResolver, edgeResolver)
merge(nodeResolver, edgeResolver) ==
  /\ IsNullish(merged)
  /\ Merged(mergeCall(graph, graph2, nodeResolver, edgeResolver))

\* merged = Graph.mergeConservative(g1, g2)
mergeConservative ==
  /\ IsNullish(merged)
  /\ Merged(mergeConservativeCall(graph, graph2))

\* The heap of the three graphs after merge returned.
Heap == [g1 |-> graph, g2 |-> graph2, result |-> merged]

\* The variables after a call on merged left the graph and outcome r.
Written(r) ==
  LET after == [Heap EXCEPT ![Result] = r.graph] IN
  /\ graph' = after.g1
  /\ graph2' = after.g2
  /\ merged' = after[Result]
  /\ result' = r.result
  /\ UNCHANGED <<map, map2, xs, snapshot>>

\* merged.addNode(node), the first call after the merge.
mergedAddNode(node) ==
  /\ ~IsNullish(merged)
  /\ result = ReturnedNew
  /\ Written(addNodeCall(Heap[Result], node))

\* merged.addEdge(edge), the first call after the merge.
mergedAddEdge(edge) ==
  /\ ~IsNullish(merged)
  /\ result = ReturnedNew
  /\ Written(addEdgeCall(Heap[Result], edge))

MergeNext ==
  \/ \E node \in MergeNodes : g1AddNode(node)
  \/ \E edge \in MergeEdges : g1AddEdge(edge)
  \/ \E node \in MergeNodes : g2AddNode(node)
  \/ \E edge \in MergeEdges : g2AddEdge(edge)
  \/ \E r \in Resolvers : merge(r[1], r[2])
  \/ mergeConservative
  \/ \E node \in MergeNodes : mergedAddNode(node)
  \/ \E edge \in MergeEdges : mergedAddEdge(edge)

MergeSpec == Init /\ [][MergeNext]_vars

---------------------------------------------------------------------------
(* Two graphs over one address built in both field orders, compared by     *)
(* equals and merged conservatively either way round.                      *)

\* The nodes and edges of these graphs: the mansion with its address in the
\* order of either source file, and a deed between two such addresses.
TwinAddresses ==
  {makeAddress(TestOrder, "mansion"), makeAddress(FetcherOrder, "mansion")}
TwinNodes == [address : TwinAddresses, payload : Payloads]
TwinEdges ==
  [address : {makeAddress(TestOrder, "deed")}, src : TwinAddresses,
   dst : TwinAddresses, payload : EdgePayloads]

\* g1.equals(g2)
graphEquals ==
  /\ result' = ReturnedBoolean(GraphEquals(graph, graph2))
  /\ UNCHANGED <<map, map2, graph, graph2, merged, xs, snapshot>>

\* The variables after a merge of (g2, g1) left the heap and outcome r.
MergedSwapped(r) ==
  /\ graph' = r.heap.g2
  /\ graph2' = r.heap.g1
  /\ merged' = IF Failed(r) THEN Null ELSE r.heap[Result]
  /\ result' = r.result
  /\ UNCHANGED <<map, map2, xs, snapshot>>

\* merged = Graph.mergeConservative(g2, g1)
mergeConservativeSwapped ==
  /\ IsNullish(merged)
  /\ MergedSwapped(mergeConservativeCall(graph2, graph))

TwinNext ==
  \/ \E node \in TwinNodes : g1AddNode(node)
  \/ \E edge \in TwinEdges : g1AddEdge(edge)
  \/ \E node \in TwinNodes : g2AddNode(node)
  \/ \E edge \in TwinEdges : g2AddEdge(edge)
  \/ graphEquals
  \/ mergeConservative
  \/ mergeConservativeSwapped

TwinSpec == Init /\ [][TwinNext]_vars

---------------------------------------------------------------------------
(* An array of houses, built element by element and sorted.                *)

\* The elements: houses at three addresses, one of them in both field
\* orders, so that two elements may have the same key.
SortValues == [address : NodeAddresses, payload : Payloads]

\* xs = [...xs, u]
xsAppend(u) ==
  /\ Len(xs) < MaxLen
  /\ xs' = Append(xs, u)
  /\ result' = ReturnedNew
  /\ UNCHANGED <<map, map2, graph, graph2, merged, snapshot>>

\* sortedByAddress(xs)
sortedByAddress ==
  \E sorted \in Sort(xs) :
    /\ xs' = sortedByAddressCall(xs, sorted).xs
    /\ result' = sortedByAddressCall(xs, sorted).result
    /\ UNCHANGED <<map, map2, graph, graph2, merged, snapshot>>

SortNext ==
  \/ \E u \in SortValues : xsAppend(u)
  \/ sortedByAddress

SortSpec == Init /\ [][SortNext]_vars

---------------------------------------------------------------------------
(* A graph and the object its toJSON returned, which the caller then       *)
(* writes to.                                                              *)

AliasNodeAddresses ==
  {makeAddress(TestOrder, "mansion"), makeAddress(TestOrder, "mattressStore")}

AliasNodes == [address : AliasNodeAddresses, payload : {"p"}]

AliasEdges ==
  [address : {makeAddress(TestOrder, "deed")}, src : AliasNodeAddresses,
   dst : AliasNodeAddresses, payload : EdgePayloads]

\* The ids the caller writes into an address.
AliasIds == {"mansion", "mattressStore"}

JSONKinds == {"nodes", "edges"}

\* obj[name] = v on an object that has the property: it keeps its place.
SetProperty(obj, name, v) ==
  [props |->
     [i \in 1..Len(obj.props) |->
        IF obj.props[i][1] = name THEN <<name, v>> ELSE obj.props[i]]]

\* The properties of {...value} that hold an object, src and dst: the spread
\* copies the reference, so the copy and the stored value hold the same one.
SharedProperties(value) == (DOMAIN SansAddress(value)) \cap {"src", "dst"}

\* The entries with the property f of the value at `key` holding v.
WithProperty(data, key, f, v) ==
  Put(data, key, [At(data, key) EXCEPT ![f] = v])

\* snapshot = graph.toJSON()
toJSON ==
  /\ snapshot' = graphToJSON(graph)
  /\ result' = ReturnedNew
  /\ UNCHANGED <<map, map2, graph, graph2, merged, xs>>

\* snapshot[kind][key][f].id = id, for a property f that holds an object: the
\* object is the one the stored value holds, which the graph sees changed.
setNestedId(kind, key, f, id) ==
  /\ ~IsNullish(snapshot)
  /\ HasKey(snapshot[kind], key)
  /\ f \in SharedProperties(At(graph[kind], key))
  /\ LET object == SetProperty(At(graph[kind], key)[f], "id", id) IN
     /\ snapshot' =
          [snapshot EXCEPT ![kind] = WithProperty(@, key, f, object)]
     /\ graph' = [graph EXCEPT ![kind] = WithProperty(@, key, f, object)]
  /\ UNCHANGED <<map, map2, graph2, merged, xs, result>>

\* snapshot[kind][key].payload = payload: a property of the copy.
setPayload(kind, key, payload) ==
  /\ ~IsNullish(snapshot)
  /\ HasKey(snapshot[kind], key)
  /\ snapshot' =
       [snapshot EXCEPT ![kind] = WithProperty(@, key, "payload", payload)]
  /\ UNCHANGED <<map, map2, graph, graph2, merged, xs, result>>

\* delete snapshot[kind][key]
deleteKey(kind, key) ==
  /\ ~IsNullish(snapshot)
  /\ HasKey(snapshot[kind], key)
  /\ snapshot' = [snapshot EXCEPT ![kind] = SansKey(@, key)]
  /\ UNCHANGED <<map, map2, graph, graph2, merged, xs, result>>

AliasKeys == {Stringify(a) : a \in Addresses}

\* The caller writes to the object toJSON returned, or to an object reachable
\* from it.
mutateSnapshot ==
  \E kind \in JSONKinds, key \in AliasKeys :
    \/ \E f \in {"src", "dst"}, id \in AliasIds : setNestedId(kind, key, f, id)
    \/ \E payload \in Payloads : setPayload(kind, key, payload)
    \/ deleteKey(kind, key)

AliasNext ==
  \/ \E node \in AliasNodes : addNode(node)
  \/ \E edge \in AliasEdges : addEdge(edge)
  \/ toJSON
  \/ mutateSnapshot

AliasSpec == Init /\ [][AliasNext]_vars

---------------------------------------------------------------------------
(* Properties of the graph.                                                *)

\* The number of times the address a occurs in the list of addresses.
Occurrences(list, a) == Cardinality({i \in 1..Len(list) : list[i] = a})

\* The stored values of an AddressMap.
Stored(data) == {data[i].value : i \in 1..Len(data)}

\* C1: the node map, the out-edge index and the in-edge index are keyed by the
\* same set of addresses, after any sequence of accepted and rejected calls.
C1_IndexKeysetsEqualNodes ==
  /\ MapKeys(graph.outEdges) = MapKeys(graph.nodes)
  /\ MapKeys(graph.inEdges) = MapKeys(graph.nodes)

\* A graph of two nodes on which a call has just been rejected.
C1_Witness ==
  /\ Len(graph.nodes) = 2
  /\ result.tag = "throw"

\* C2: the address of every stored edge occurs exactly once in the out-edge
\* list of the node at its src and exactly once in the in-edge list of the
\* node at its dst, and every address in an out-edge (in-edge) list is the
\* address of a stored edge whose src (dst) is the node of that list.
C2_EdgesIndexedExactlyOnce ==
  /\ \A e \in Stored(graph.edges) :
       /\ HasKey(graph.outEdges, Stringify(e.src))
       /\ Occurrences(At(graph.outEdges, Stringify(e.src)).edges, e.address) = 1
       /\ HasKey(graph.inEdges, Stringify(e.dst))
       /\ Occurrences(At(graph.inEdges, Stringify(e.dst)).edges, e.address) = 1
  /\ \A entry \in Stored(graph.outEdges) :
       \A i \in 1..Len(entry.edges) :
         /\ getEdge(graph, entry.edges[i]).tag = "return"
         /\ getEdge(graph, entry.edges[i]).value.address = entry.edges[i]
         /\ Stringify(getEdge(graph, entry.edges[i]).value.src)
              = Stringify(entry.address)
  /\ \A entry \in Stored(graph.inEdges) :
       \A i \in 1..Len(entry.edges) :
         /\ getEdge(graph, entry.edges[i]).tag = "return"
         /\ getEdge(graph, entry.edges[i]).value.address = entry.edges[i]
         /\ Stringify(getEdge(graph, entry.edges[i]).value.dst)
              = Stringify(entry.address)

\* A graph that holds a self-loop and a second edge between two nodes, the
\* last call having re-added an edge or added the second one.
C2_Witness ==
  /\ Len(graph.edges) = 2
  /\ \E e \in Stored(graph.edges) : Stringify(e.src) = Stringify(e.dst)
  /\ \E e \in Stored(graph.edges) : Stringify(e.src) # Stringify(e.dst)
  /\ result = ReturnedThis

Kept(before, after) ==
  \A key \in MapKeys(before) :
    /\ HasKey(after, key)
    /\ At(after, key) = At(before, key)

\* C4: no call removes or replaces a stored node or edge: whatever is stored
\* at an address before a call is stored there, with the same content, after.
\* (A step that leaves both maps alone keeps every entry; it is tested first.)
C4_StoredValuesAreKept ==
  [][\/ /\ graph'.nodes = graph.nodes
        /\ graph'.edges = graph.edges
     \/ /\ Kept(graph.nodes, graph'.nodes)
        /\ Kept(graph.edges, graph'.edges)]_vars

\* A redefinition of a stored edge has just been refused.
C4_Witness ==
  /\ Len(graph.edges) >= 1
  /\ result.tag = "throw"
  /\ result.message[1] = "edge at address "

\* What C5 says of g.addNode(n): r holds the graph after the call and the
\* outcome.
AddNodeContract(g, n, r) ==
  LET key == Stringify(n.address) IN
  IF HasKey(g.nodes, key)
    THEN IF At(g.nodes, key) = n
           THEN /\ r.graph = g
                /\ r.result = ReturnedThis
           ELSE /\ r.graph = g
                /\ r.result.tag = "throw"
                /\ r.result.message[1] = "node at address "
                /\ r.result.message[2] = key
    ELSE /\ r.graph.nodes = Append(g.nodes, [key |-> key, value |-> n])
         /\ r.graph.outEdges =
              Append(g.outEdges,
                     [key |-> key,
                      value |-> [address |-> n.address, edges |-> <<>>]])
         /\ r.graph.inEdges =
              Append(g.inEdges,
                     [key |-> key,
                      value |-> [address |-> n.address, edges |-> <<>>]])
         /\ r.graph.edges = g.edges
         /\ r.result = ReturnedThis

\* C5: on every reachable graph, addNode of a node equal to the one stored at
\* its address changes nothing; of a node that differs from the one stored at
\* its address, fails with a conflict error for a node naming that address and
\* changes nothing; of a node at a free address, inserts it with empty out- and
\* in-edge lists.
C5_AddNodeIdempotentOrConflict ==
  \A n \in Nodes : AddNodeContract(graph, n, addNodeCall(graph, n))

\* A node that differs from the stored one has just been refused.
C5_Witness ==
  /\ Len(graph.nodes) >= 1
  /\ result.tag = "throw"
  /\ result.message[1] = "node at address "

\* The edge input e is one addEdge must reject on the graph g.
MustReject(g, e) ==
  \/ IsNullish(e)
  \/ /\ ~IsNullish(e)
     /\ IF HasKey(g.edges, Stringify(e.address))
          THEN ~deepEqualEdge(At(g.edges, Stringify(e.address)), e)
          ELSE \/ ~HasKey(g.nodes, Stringify(e.src))
               \/ ~HasKey(g.nodes, Stringify(e.dst))

\* C6: on every reachable graph, an addEdge of an absent edge, of a
\* redefinition, or of an edge whose src or dst has no node fails and leaves
\* the four maps as they were.
C6_RejectedAddEdgeChangesNothing ==
  \A e \in EdgeInputs :
    MustReject(graph, e)
    => /\ addEdgeCall(graph, e).graph = graph
       /\ addEdgeCall(graph, e).result.tag = "throw"

\* An edge has just been refused by a graph that holds two edges.
C6_Witness ==
  /\ Len(graph.edges) = 2
  /\ result.tag = "throw"
  /\ result.message[1] \in {"source ", "edge at address ", "edge is "}

\* The edge e has a node at its src and none at its dst, and no edge is
\* stored at its address.
OnlyDstMissing(g, e) ==
  /\ ~HasKey(g.edges, Stringify(e.address))
  /\ HasKey(g.nodes, Stringify(e.src))
  /\ ~HasKey(g.nodes, Stringify(e.dst))

\* The edge e has no node at its src, and no edge is stored at its address.
IsSrcMissing(g, e) ==
  /\ ~HasKey(g.edges, Stringify(e.address))
  /\ ~HasKey(g.nodes, Stringify(e.src))

\* C7: the error addEdge raises for an edge of which only the dst has no node
\* is not labelled as a failure of the source, and differs from every error
\* the same graph raises for an edge whose src has no node.
C7_DstFailureDistinctFromSrc ==
  [][\A e \in Edges :
       (OnlyDstMissing(graph, e) /\ addEdge(e))
       => /\ result'.tag = "throw"
          /\ result'.message[1] # "source "
          /\ \A f \in Edges :
               IsSrcMissing(graph, f) => result' # addEdgeCall(graph, f).result]_vars

---------------------------------------------------------------------------
(* Properties of the map.                                                  *)

\* The two addresses hold pairwise equal repositoryName, pluginName, type
\* and id.
FieldwiseEqual(a, b) == \A f \in AddressFields : Field(a, f) = Field(b, f)

\* C8: an address has the key of a stored value exactly when its four fields
\* equal those of the value's address, in whatever order either was built, and
\* get of such an address returns the value.
C8_KeyDependsOnFieldsOnly ==
  \A u \in Stored(map) :
    \A a \in Addresses :
      /\ (Stringify(a) = Stringify(u.address)) <=> FieldwiseEqual(a, u.address)
      /\ FieldwiseEqual(a, u.address) => MapGet(map, a) = Returned(u)

\* The values add stores: those with an address.
Addressable(u) == ~IsNullish(u) /\ ~IsNullish(u.address)

\* C9: on every reachable map, add(u) returns without an error and get of
\* u's address then returns u; when a value was stored at that address the
\* number of entries is unchanged; the entries at all other addresses are
\* unchanged.
C9_AddThenGetReplaces ==
  \A u \in {v \in MapValues : Addressable(v)} :
    LET r == MapAdd(map, u)
        key == Stringify(u.address)
    IN /\ r.result = ReturnedThis
       /\ MapGet(r.data, u.address) = Returned(u)
       /\ HasKey(map, key) => Len(r.data) = Len(map)
       /\ \A k \in MapKeys(map) \ {key} :
            HasKey(r.data, k) /\ At(r.data, k) = At(map, k)
       /\ MapKeys(r.data) = MapKeys(map) \cup {key}

\* A map of two entries, the last call an add that returned.
C9_Witness ==
  /\ Len(map) >= 2
  /\ result = ReturnedThis
  /\ \E u \in Stored(map) : u.payload = "q"

\* C10: the entries of the map have distinct keys, each the serialization of
\* the address of its value; get of an address returns the stored value that
\* has this address, and undefined when there is none.
C10_KeysAreSerializedAddresses ==
  /\ \A i, j \in 1..Len(map) : map[i].key = map[j].key => i = j
  /\ \A i \in 1..Len(map) : map[i].key = Stringify(map[i].value.address)
  /\ MapKeys(map) = {Stringify(u.address) : u \in Stored(map)}
  /\ \A a \in Addresses :
       IF \E u \in Stored(map) : u.address = a
         THEN /\ MapGet(map, a).tag = "return"
              /\ MapGet(map, a).value.address = a
              /\ MapGet(map, a).value \in Stored(map)
         ELSE MapGet(map, a) = ReturnedUndefined

\* A map made by fromJSON that holds one address in both field orders.
C10_Witness ==
  /\ result = ReturnedNew
  /\ \E u, v \in Stored(map) :
       /\ u.address # v.address
       /\ deepEqualObject(u.address, v.address)

\* C11: the map that fromJSON makes of the toJSON of a map equals that map,
\* for every map built by add, the empty one included.
C11_JSONRoundTripEquals ==
  MapEquals(MapFromJSON(MapToJSON(map)), map)

\* A map of two entries in the two field orders, the last call an add.
C11_Witness ==
  /\ Len(map) >= 2
  /\ result = ReturnedThis
  /\ \E u, v \in Stored(map) : u.address.props[1] # v.address.props[1]

\* C13: toJSON has the keys of the map, each with the stored value less its
\* address field and the other fields as stored; every value of the map
\* fromJSON makes of it carries the address that was serialized.
C13_JSONStripsAndRestoresAddress ==
  LET json == MapToJSON(map)
      all == MapGetAll(MapFromJSON(json))
  IN /\ Len(json) = Len(map)
     /\ \A i \in 1..Len(map) :
          /\ json[i].key = map[i].key
          /\ DOMAIN json[i].value = (DOMAIN map[i].value) \ {"address"}
          /\ \A f \in DOMAIN json[i].value :
               json[i].value[f] = map[i].value[f]
     /\ Len(all) = Len(map)
     /\ \A i \in 1..Len(all) :
          /\ "address" \in DOMAIN all[i]
          /\ all[i].address = map[i].value.address

\* A map of two entries with different payloads.
C13_Witness ==
  /\ Len(map) >= 2
  /\ \E u, v \in Stored(map) : u.payload # v.payload

\* C12: equals is true exactly when the two maps have the same keys and the
\* same value at each key: a map equals itself, the answer is the same both
\* ways round and does not depend on the order of the adds, and it is false
\* when the keys of one are a strict subset of the other's and when a key of
\* both holds different values.
C12_EqualsIsKeysetAndValues ==
  LET eq == MapEquals(map, map2)
      shared == MapKeys(map) \cap MapKeys(map2)
      same == /\ MapKeys(map) = MapKeys(map2)
              /\ \A k \in shared : At(map, k) = At(map2, k)
  IN /\ eq <=> same
     /\ MapEquals(map, map)
     /\ MapEquals(map2, map2)
     /\ eq <=> MapEquals(map2, map)
     /\ (Stored(map) = Stored(map2)) => eq
     /\ (MapKeys(map) # MapKeys(map2) /\ MapKeys(map) \subseteq MapKeys(map2))
          => ~eq
     /\ (\E k \in shared : At(map, k) # At(map2, k)) => ~eq
     /\ (result.tag \in {"true", "false"}) => (result = ReturnedBoolean(eq))

\* Two maps of the same two entries added in opposite orders, found equal.
C12_Witness ==
  /\ Len(map) >= 2
  /\ Stored(map) = Stored(map2)
  /\ map # map2
  /\ result = ReturnedBoolean(TRUE)

\* An Error of the null checks, saying which argument is null or undefined.
NullArgumentError(r, x) ==
  /\ r.tag = "throw"
  /\ r.message[1] \in {"address is ", "node is ", "edge is "}
  /\ r.message[2] = String(x)

\* C14: with an absent (null or undefined) argument, every one of these calls
\* fails with a null-argument error and leaves its container as it was:
\* AddressMap.add of an absent value or of a value with an absent address,
\* AddressMap.get, Graph.addNode, Graph.addEdge, getOutEdges and getInEdges.
C14_AbsentArgumentIsNullArgumentError ==
  \A x \in Absent :
    /\ NullArgumentError(MapAdd(map, x).result, x)
    /\ MapAdd(map, x).data = map
    /\ \A p \in Payloads :
         LET r == MapAdd(map, [address |-> x, payload |-> p])
         IN NullArgumentError(r.result, x) /\ r.data = map
    /\ NullArgumentError(MapGet(map, x), x)
    /\ NullArgumentError(addNodeCall(graph, x).result, x)
    /\ addNodeCall(graph, x).graph = graph
    /\ NullArgumentError(addEdgeCall(graph, x).result, x)
    /\ addEdgeCall(graph, x).graph = graph
    /\ NullArgumentError(getOutEdgesCall(graph, x), x)
    /\ NullArgumentError(getInEdgesCall(graph, x), x)

\* The invariants of the indices, of any graph g: the three maps have the
\* same keys, every stored edge is once on the out-list of its src and once
\* on the in-list of its dst and on no other list, and its src and dst are
\* stored nodes.
IndexInvariants(g) ==
  /\ MapKeys(g.outEdges) = MapKeys(g.nodes)
  /\ MapKeys(g.inEdges) = MapKeys(g.nodes)
  /\ \A e \in Stored(g.edges) :
       /\ HasKey(g.nodes, Stringify(e.src))
       /\ HasKey(g.nodes, Stringify(e.dst))
       /\ \A k \in MapKeys(g.nodes) :
            /\ Occurrences(At(g.outEdges, k).edges, e.address)
                 = IF k = Stringify(e.src) THEN 1 ELSE 0
            /\ Occurrences(At(g.inEdges, k).edges, e.address)
                 = IF k = Stringify(e.dst) THEN 1 ELSE 0
  /\ \A k \in MapKeys(g.nodes) :
       \A list \in {At(g.outEdges, k).edges, At(g.inEdges, k).edges} :
         \A i \in 1..Len(list) : HasKey(g.edges, Stringify(list[i]))

\* The JSON names, as the src or dst of an edge, a node it does not hold.
Dangling(json) ==
  \E i \in 1..Len(json.edges) :
    \E a \in {json.edges[i].value.src, json.edges[i].value.dst} :
      \A j \in 1..Len(json.nodes) : json.nodes[j].key # Stringify(a)

\* C15: Graph.fromJSON of the toJSON of a graph succeeds, the graph it builds
\* equals the original and its indices satisfy the graph invariants;
\* Graph.fromJSON of a JSON whose edge names a src or dst that is not among
\* its nodes fails.
C15_GraphJSONRoundTrip ==
  /\ LET r == graphFromJSONCall(graphToJSON(graph))
     IN /\ r.result = ReturnedNew
        /\ GraphEquals(r.graph, graph)
        /\ GraphEquals(graph, r.graph)
        /\ IndexInvariants(r.graph)
  /\ \A key \in MapKeys(graph.nodes) :
       LET json == [nodes |-> SansKey(graphToJSON(graph).nodes, key),
                    edges |-> graphToJSON(graph).edges]
       IN Dangling(json) => graphFromJSONCall(json).result.tag = "throw"

\* A graph of two nodes and two edges read back from its JSON.
C15_Witness ==
  /\ Len(graph.nodes) >= 2
  /\ Len(graph.edges) >= 2
  /\ result = ReturnedNew

\* The stored edges of g whose field `end` (src or dst) is the node address a,
\* in the order in which they were added.
EdgesAt(g, end, a) ==
  SelectSeq(MapGetAll(g.edges), LAMBDA e : Stringify(e[end]) = Stringify(a))

\* What the claim requires of the outcome r of a query at the address a.
AdjacencyContract(g, end, a, r) ==
  IF HasKey(g.nodes, Stringify(a))
    THEN r = ReturnedArray(EdgesAt(g, end, a))
    ELSE r = Threw("no node for address ", Stringify(a), "")

SharedKeys(d1, d2) == MapKeys(d1) \cap MapKeys(d2)

\* The value that merge is to hold at the key k of the map `field` (nodes or
\* edges): the resolver's result where both graphs have the key, else the
\* value of the one graph that has it.
MergedValue(g1, g2, field, resolver, k) ==
  IF k \in SharedKeys(g1[field], g2[field])
    THEN Resolve(resolver, field, At(g1[field], k), At(g2[field], k)).value
  ELSE IF HasKey(g1[field], k) THEN At(g1[field], k)
  ELSE At(g2[field], k)

\* The resolver calls that merge is to make: one for each shared key, with
\* the value of g1 and the value of g2.
SharedCalls(g1, g2) ==
  {<<"nodes", At(g1.nodes, k), At(g2.nodes, k)>> :
     k \in SharedKeys(g1.nodes, g2.nodes)}
  \cup {<<"edges", At(g1.edges, k), At(g2.edges, k)>> :
          k \in SharedKeys(g1.edges, g2.edges)}

\* What the claim requires of the state r in which merge(g1, g2, nodeResolver,
\* edgeResolver) ended: a graph was returned, its node keys and its edge keys
\* are the unions, every key holds the value MergedValue gives, and the
\* resolvers were called once for each shared key and for nothing else.
MergeContract(g1, g2, nodeResolver, edgeResolver, r) ==
  /\ r.result = ReturnedNew
  /\ \A field \in {"nodes", "edges"} :
       /\ MapKeys(r.heap[Result][field])
            = MapKeys(g1[field]) \cup MapKeys(g2[field])
       /\ \A k \in MapKeys(r.heap[Result][field]) :
            At(r.heap[Result][field], k)
              = MergedValue(g1, g2, field,
                            IF field = "nodes" THEN nodeResolver
                                               ELSE edgeResolver, k)
  /\ {r.calls[i] : i \in 1..Len(r.calls)} = SharedCalls(g1, g2)
  /\ Len(r.calls) = Cardinality(SharedCalls(g1, g2))

\* The resolver pairs whose results carry the address of their arguments.
SameAddressResolvers ==
  {r \in Resolvers : r[1] # "relocate" /\ r[2] # "relocate"}

\* The edge resolver gives, for every shared edge, an edge whose src and dst
\* are nodes of g1 or of g2.
EndpointsStored(g1, g2, edgeResolver) ==
  \A k \in SharedKeys(g1.edges, g2.edges) :
    LET e == Resolve(edgeResolver, "edges", At(g1.edges, k), At(g2.edges, k))
    IN \A a \in {e.value.src, e.value.dst} :
         Stringify(a) \in MapKeys(g1.nodes) \cup MapKeys(g2.nodes)

\* C17 as stated: with resolvers that return a value carrying the shared
\* address, merge returns a graph whose node addresses and edge addresses are
\* the unions of those of g1 and g2, an address of one graph alone holding
\* that graph's value and an address of both holding the resolver's result
\* for (value in g1, value in g2), the resolver having been called exactly
\* for the shared addresses.
C17_MergeIsResolvedUnion ==
  IsNullish(merged) =>
    \A r \in SameAddressResolvers :
      MergeContract(graph, graph2, r[1], r[2],
                    mergeCall(graph, graph2, r[1], r[2]))

\* C17 amended: the same, for resolvers that return a value carrying the
\* shared address and, for an edge, a src and a dst that are nodes of g1 or
\* of g2.
C17_MergeIsResolvedUnionOfStoredEndpoints ==
  IsNullish(merged) =>
    \A r \in SameAddressResolvers :
      EndpointsStored(graph, graph2, r[2]) =>
        MergeContract(graph, graph2, r[1], r[2],
                      mergeCall(graph, graph2, r[1], r[2]))

\* A merge has returned a graph that holds a synthesized node, next to a node
\* of g1 alone or of g2 alone, and a synthesized edge.
C17_Witness ==
  /\ ~IsNullish(merged)
  /\ result = ReturnedNew
  /\ Len(merged.nodes) = 2
  /\ \E n \in Stored(merged.nodes) : n.payload = "pq"
  /\ \E n \in Stored(merged.nodes) : n.payload # "pq"
  /\ \E e \in Stored(merged.edges) : e.payload = "pq"

\* The heap h has g1 and g2 as the graphs g1 and g2, indices included.
InputsKept(h, g1, g2) == h.g1 = g1 /\ h.g2 = g2

\* The merge that ended in the state r left g1 and g2 as they were, and so do
\* an addNode and an addEdge on the graph it wrote to.
MergeFrame(g1, g2, r) ==
  /\ InputsKept(r.heap, g1, g2)
  /\ \A node \in MergeNodes :
       InputsKept([r.heap EXCEPT
                     ![Result] = addNodeCall(r.heap[Result], node).graph],
                  g1, g2)
  /\ \A edge \in MergeEdges :
       InputsKept([r.heap EXCEPT
                     ![Result] = addEdgeCall(r.heap[Result], edge).graph],
                  g1, g2)

\* C18: merge and mergeConservative write to a graph of their own: after the
\* call, returned or thrown, the node map, the edge map and the two indices
\* of g1 and of g2 are as before, and an addNode or addEdge on the returned
\* graph changes neither g1 nor g2.
C18_MergeLeavesInputs ==
  /\ [](IsNullish(merged) =>
          /\ \A r \in Resolvers :
               MergeFrame(graph, graph2, mergeCall(graph, graph2, r[1], r[2]))
          /\ MergeFrame(graph, graph2,
                        mergeConservativeCall(graph, graph2)))
  /\ [][(~IsNullish(merged') \/ result'.tag = "throw")
          => (graph' = graph /\ graph2' = graph2)]_vars

\* The graph a merge returned has taken a node that neither g1 nor g2 has.
C18_Witness ==
  /\ ~IsNullish(merged)
  /\ result = ReturnedThis
  /\ Len(graph.nodes) + Len(graph2.nodes) >= 1
  /\ \E a \in MergeNodeAddresses :
       /\ HasKey(merged.nodes, Stringify(a))
       /\ Stringify(a) \notin MapKeys(graph.nodes) \cup MapKeys(graph2.nodes)

\* The values that the resolver returns for the shared keys of the map
\* `field` of g1 and g2.
ResolvedValues(g1, g2, field, resolver) ==
  {Resolve(resolver, field, At(g1[field], k), At(g2[field], k)).value :
     k \in SharedKeys(g1[field], g2[field])}

RelocationContract(g1, g2, field, resolver, r) ==
  LET resolved == ResolvedValues(g1, g2, field, resolver)
      stored == r.heap[Result][field]
  IN IF Cardinality(resolved) > 1
       THEN /\ r.result.tag = "throw"
            /\ r.result.message[1] = "node at address "
            /\ r.result.message[3] = " exists with distinct contents"
       ELSE /\ r.result = ReturnedNew
            /\ MapKeys(stored) = MapKeys(g1[field]) \cup MapKeys(g2[field])
                 \cup {Stringify(v.address) : v \in resolved}
            /\ \A v \in resolved : At(stored, Stringify(v.address)) = v
            /\ \A k \in MapKeys(g2[field]) : At(stored, k) = At(g2[field], k)
            /\ \A k \in MapKeys(g1[field]) \ MapKeys(g2[field]) :
                 At(stored, k) = At(g1[field], k)

Differing(g1, g2, field) ==
  SelectSeq(MapGetAll(g1[field]),
            LAMBDA v :
              /\ HasKey(g2[field], Stringify(v.address))
              /\ ~deepEqualValue(v, At(g2[field], Stringify(v.address))))

\* What the claim requires of the state r in which mergeConservative(g1, g2)
\* ended.
ConservativeContract(g1, g2, r) ==
  IF Differing(g1, g2, "nodes") # <<>>
    THEN r.result = Threw("distinct nodes with address ",
                          Stringify(Head(Differing(g1, g2, "nodes")).address),
                          "")
  ELSE IF Differing(g1, g2, "edges") # <<>>
    THEN r.result = Threw("distinct edges with address ",
                          Stringify(Head(Differing(g1, g2, "edges")).address),
                          "")
  ELSE
    /\ r.result = ReturnedNew
    /\ \A field \in {"nodes", "edges"} :
         LET stored == r.heap[Result][field] IN
         /\ MapKeys(stored) = MapKeys(g1[field]) \cup MapKeys(g2[field])
         /\ Len(stored) = Cardinality(MapKeys(stored))
         /\ \A k \in MapKeys(g1[field]) : At(stored, k) = At(g1[field], k)
         /\ \A k \in MapKeys(g2[field]) :
              deepEqualValue(At(stored, k), At(g2[field], k))

\* C20: mergeConservative(g1, g2) succeeds exactly when every node address
\* and every edge address of both graphs holds deep-equal values in the two;
\* the graph then returned holds one value for each address of the union.
\* Otherwise it returns no graph and throws, at the first overlap that
\* differs, nodes before edges, an error that names the address and says
\* whether it is one of nodes or of edges.
C20_ConservativeMerge ==
  /\ IsNullish(merged) =>
       ConservativeContract(graph, graph2,
                            mergeConservativeCall(graph, graph2))
  /\ (/\ result.tag = "throw"
      /\ result.message[1] \in {"distinct nodes with address ",
                                "distinct edges with address "})
       => /\ IsNullish(merged)
          /\ result = mergeConservativeCall(graph, graph2).result

\* mergeConservative has thrown for the first of two nodes that differ, in
\* graphs whose edges differ too.
C20_Witness ==
  /\ IsNullish(merged)
  /\ Len(Differing(graph, graph2, "nodes")) = 2
  /\ Len(Differing(graph, graph2, "edges")) = 1
  /\ graph.nodes[1].key # graph2.nodes[1].key
  /\ result = Threw("distinct nodes with address ", graph.nodes[1].key, "")

\* The keys of the elements of the arrays under test.
SortKeys == {Stringify(u.address) : u \in SortValues}

\* C21: sortedByAddress(xs) returns a new array that holds the elements of
\* xs, each as often as xs does, in non-decreasing order of a total order on
\* the addresses in which two elements are equal exactly when their keys are
\* equal; xs is left as it was.
C21_SortedByAddress ==
  /\ [](/\ \A a, b, c \in SortKeys :
             /\ (a = b) <=> (~StringLess(a, b) /\ ~StringLess(b, a))
             /\ ~(StringLess(a, b) /\ StringLess(b, a))
             /\ (StringLess(a, b) /\ StringLess(b, c)) => StringLess(a, c)
        /\ \A u, v \in SortValues :
             (cmp(u, v) = 0) <=> (Stringify(u.address) = Stringify(v.address))
        /\ Sort(xs) # {}
        /\ \A sorted \in Sort(xs) :
             LET r == sortedByAddressCall(xs, sorted) IN
             /\ r.xs = xs
             /\ Len(r.result.value) = Len(xs)
             /\ \A u \in SortValues :
                  Occurrences(r.result.value, u) = Occurrences(xs, u)
             /\ \A h, i \in 1..Len(xs) :
                  h < i => ~StringLess(Stringify(r.result.value[i].address),
                                       Stringify(r.result.value[h].address)))
  /\ [][result'.tag = "array" => xs' = xs]_vars

\* An array of three houses, two of them with the same key, was returned in
\* another order than xs has.
C21_Witness ==
  /\ result.tag = "array"
  /\ Len(xs) = 3
  /\ result.value # xs
  /\ \E h, i \in 1..3 :
       /\ h # i
       /\ xs[h] # xs[i]
       /\ Stringify(xs[h].address) = Stringify(xs[i].address)

\* The resolvers that return one of their two arguments.
KeepingResolvers == {"first", "second"}

\* C22: merge adds every node of the result before it adds any edge, so
\* with resolvers that return one of their two arguments it never fails for
\* a missing endpoint: when the loops over the edges start, the result has no
\* edge, has all the nodes it will have, and among them the src and dst of
\* every edge of g1 and of g2.
C22_NodesBeforeEdges ==
  IsNullish(merged) =>
    \A nodeResolver, edgeResolver \in KeepingResolvers :
      LET n == mergeNodesCall(graph, graph2, nodeResolver)
          r == mergeCall(graph, graph2, nodeResolver, edgeResolver)
      IN /\ ~Failed(n)
         /\ n.heap[Result].edges = <<>>
         /\ \A e \in Stored(graph.edges) \cup Stored(graph2.edges) :
              /\ HasKey(n.heap[Result].nodes, Stringify(e.src))
              /\ HasKey(n.heap[Result].nodes, Stringify(e.dst))
         /\ r.result = ReturnedNew
         /\ r.heap[Result].nodes = n.heap[Result].nodes
         /\ MapKeys(r.heap[Result].edges)
              = MapKeys(graph.edges) \cup MapKeys(graph2.edges)

\* A merge has returned a graph with the edge of g2 between a node that only
\* g2 has and a node that g1 has too, g1 having no edge.
C22_Witness ==
  /\ ~IsNullish(merged)
  /\ result = ReturnedNew
  /\ graph.edges = <<>>
  /\ Len(graph.nodes) = 1
  /\ Len(graph2.nodes) = 2
  /\ \E e \in Stored(graph2.edges) :
       /\ e.src # e.dst
       /\ e \in Stored(merged.edges)

\* The keys of the edge addresses on the list of the node key k in an index.
ListedKeys(index, k) ==
  {Stringify(At(index, k).edges[i]) : i \in 1..Len(At(index, k).edges)}

\* Every node of g1 has in g2 the same set of out-edge addresses and the same
\* set of in-edge addresses.
SameAdjacency(g1, g2) ==
  /\ MapKeys(g1.nodes) = MapKeys(g2.nodes)
  /\ \A k \in MapKeys(g1.nodes) :
       /\ ListedKeys(g1.outEdges, k) = ListedKeys(g2.outEdges, k)
       /\ ListedKeys(g1.inEdges, k) = ListedKeys(g2.inEdges, k)

\* C23: Graph.equals is true exactly when the node maps are equal and the
\* edge maps are equal, and that is enough: in two reachable graphs that are
\* equal in this sense every node has the same set of out-edge addresses and
\* the same set of in-edge addresses.
C23_EqualsImpliesSameAdjacency ==
  /\ GraphEquals(graph, graph2)
       <=> (MapEquals(graph.nodes, graph2.nodes)
            /\ MapEquals(graph.edges, graph2.edges))
  /\ GraphEquals(graph, graph2) => SameAdjacency(graph, graph2)

\* C26: mergeConservative(g1, g2) succeeds exactly when mergeConservative(g2,
\* g1) does, and then the two graphs returned are equal: the same nodes, the
\* same edges and, for every node, the same set of out-edge addresses and
\* the same set of in-edge addresses.
C26_ConservativeMergeCommutes ==
  IsNullish(merged) =>
    LET r12 == mergeConservativeCall(graph, graph2)
        r21 == mergeConservativeCall(graph2, graph)
    IN /\ Failed(r12) <=> Failed(r21)
       /\ ~Failed(r12) =>
            /\ GraphEquals(r12.heap[Result], r21.heap[Result])
            /\ SameAdjacency(r12.heap[Result], r21.heap[Result])

---------------------------------------------------------------------------
(* The order of addEdge's checks.                                          *)

\* The edge e differs from the edge stored at its address.
Redefines(g, e) ==
  /\ getEdge(g, e.address).tag = "return"
  /\ ~deepEqualEdge(getEdge(g, e.address).value, e)

\* C24: on every reachable graph addEdge looks at the edge's own address
\* first, then at its src, then at its dst, and writes nothing before: an
\* edge deep-equal to the stored one is a no-op and one that differs from it
\* is refused as a conflict of its address, whether or not its endpoints have
\* nodes; with no edge stored, an edge whose src has no node is refused naming
\* the src, whether or not its dst has one, and an edge of which only the dst
\* has no node is refused naming the dst; each refusal leaves the graph as it
\* was.
C24_AddEdgeChecksInOrder ==
  \A e \in Edges :
    LET r == addEdgeCall(graph, e)
        stored == getEdge(graph, e.address)
    IN /\ (stored.tag = "return" /\ deepEqualEdge(stored.value, e))
            => r = [graph |-> graph, result |-> ReturnedThis]
       /\ Redefines(graph, e)
            => r = [graph |-> graph,
                    result |-> Threw("edge at address ", Stringify(e.address),
                                     " exists with distinct contents")]
       /\ (stored.tag = "undefined" /\ getNode(graph, e.src).tag = "undefined")
            => r = [graph |-> graph,
                    result |-> Threw("source ", Stringify(e.src),
                                     " does not exist")]
       /\ (/\ stored.tag = "undefined"
           /\ getNode(graph, e.src).tag = "return"
           /\ getNode(graph, e.dst).tag = "undefined")
            => /\ r.graph = graph
               /\ r.result.tag = "throw"
               /\ r.result.message[2] = Stringify(e.dst)
               /\ r.result.message[3] = " does not exist"

\* An edge that differs from the stored one and has no node at its src nor at
\* its dst has just been refused as a conflict of its address.
C24_Witness ==
  \E e \in Edges :
    /\ Redefines(graph, e)
    /\ getNode(graph, e.src).tag = "undefined"
    /\ getNode(graph, e.dst).tag = "undefined"
    /\ result = Threw("edge at address ", Stringify(e.address),
                      " exists with distinct contents")

---------------------------------------------------------------------------
(* The object toJSON returns.                                              *)

\* What get, getAll and toJSON answer on the graph g, and whether it equals
\* the graph h.
Observed(g, h) ==
  [nodes |-> MapGetAll(g.nodes),
   edges |-> MapGetAll(g.edges),
   got |-> [a \in Addresses |-> <<getNode(g, a), getEdge(g, a)>>],
   json |-> graphToJSON(g),
   equal |-> GraphEquals(g, h)]

\* C25: a write to the object graph.toJSON() returned, or to an object
\* reachable from it (a value's src, dst or payload), changes the answer of no
\* later get, getAll, equals or toJSON on the graph.
C25_SnapshotIsNotAliased ==
  [][mutateSnapshot => Observed(graph', graph) = Observed(graph, graph)]_vars

=============================================================================
